---- MODULE Spec2Model ----
(***************************************************************************)
(* A model of moltr: the stable permutation sort (argsort.cpp), the        *)
(* pairwise lambda-gradient kernel (moltr/lambdaobj.pyx), the objective    *)
(* callbacks and training drivers of the demonstration notebook, and the   *)
(* build script (moltr/build.sh).                                          *)
(*                                                                         *)
(* Numbers.  The kernel computes on C doubles.  A double is modelled as a   *)
(* rational <<n, d>> in lowest terms with d > 0, and every operation       *)
(* rounds its result to SignificandBits significant bits, ties to even.    *)
(* NaN, the infinities and the exponent limits are not modelled.           *)
(***************************************************************************)
EXTENDS Integers, Sequences, FiniteSets, TLC

VARIABLES
    \* ---- argsort (argsort.cpp)
    sort_data,      \* double* data: the caller's score buffer
    sort_n,         \* int n
    sort_indices,   \* int* indices: the caller's output buffer
    sort_pc,        \* "idle" | "returned" | "thrown"
    \* ---- build.sh
    fs,             \* the files and directories that exist
    b_pc,           \* the line of build.sh about to run, or "exited"
    b_out,          \* the lines written to standard output
    b_status,       \* $?: the status of the last command run
    b_ran,          \* the commands run so far, in order
    \* ---- get_gradients (lambdaobj.pyx)
    kin,            \* the arguments of get_gradients other than grad and hess
    grad,           \* double[::1] grad: the caller's buffer
    hess,           \* double[::1] hess: the caller's buffer
    k_pc,           \* "idle" | "running" (inside the prange) | "returned"
    calls,          \* the calls of get_gradients that have returned
    task,           \* per query: the state of its prange iteration
    written,        \* per element of grad/hess: the queries that stored to it
    prev,           \* grad and hess as they were when the call was entered
    \* ---- the demonstration notebook
    dataset,        \* the training data set handed to the objective callback
    alpha,          \* dataset.alpha
    t_pc,           \* the position of the notebook's driver code
    sweep_i,        \* the index in alpha_values of the loop of line 522
    run_alpha,      \* the alpha argument of the running fit_combined_objective
    round,          \* the boosting rounds of the running lgb.train done so far
    cb,             \* the last call of an objective callback and its outcome
    \* ---- one call of get_gradients followed pair by pair
    mem,            \* the arrays the call is handed, by parameter name
    q_pc,           \* "idle" | "enter" | "pairs" | "returned" | "faulted"
    q_cur,          \* the query being processed and its loop position
    q_log,          \* the pairs that reached lines 75-96, in order
    \* ---- get_sigmoid (lambdaobj.pyx)
    sg_score,       \* double score
    sg_pc,          \* "idle" | "returned" | "faulted"
    sg_idx,         \* the element of sigmoid_table that was read
    sg_val,         \* the value returned
    \* ---- drop_requests_with_no_interactions (the notebook)
    f_positions,    \* N_POSITIONS: the rows generate_data gives each request
    f_data,         \* the rows of the data frame that generate_data made
    f_col,          \* interaction_col of the last call
    f_out,          \* the rows the last call returned
    f_pc            \* "idle" | "filtered" | "again" | "other"

sortVars == <<sort_data, sort_n, sort_indices, sort_pc>>
buildVars == <<fs, b_pc, b_out, b_status, b_ran>>
kernelVars == <<kin, grad, hess, k_pc, calls, task, written, prev>>

trainVars == <<dataset, alpha, t_pc, sweep_i, run_alpha, round, cb>>

queryVars == <<mem, q_pc, q_cur, q_log>>
sigmoidVars == <<sg_score, sg_pc, sg_idx, sg_val>>
filterVars == <<f_positions, f_data, f_col, f_out, f_pc>>

vars == <<sortVars, buildVars, kernelVars, trainVars, queryVars, sigmoidVars, filterVars>>

-----------------------------------------------------------------------------
\* Doubles.  A double is held as the rational <<n, d>> in lowest terms, d > 0,
\* that it stands for; every arithmetic operation returns the exact result
\* rounded to the nearest value with SignificandBits significant bits, ties
\* to the even significand (IEEE 754 round-to-nearest-even with a narrower
\* significand than the 53 bits of a C double and no exponent limits).

Abs(x) == IF x < 0 THEN -x ELSE x

RECURSIVE GCD(_, _)
GCD(a, b) == IF b = 0 THEN a ELSE GCD(b, a % b)

\* The value of an expression, computed once: the only element of a
\* one-element set.
The(S) == CHOOSE v \in S : TRUE

\* n/d in lowest terms, d > 0 (d # 0 required).
Frac(n, d) ==
    The({<<(IF d < 0 THEN -n ELSE n) \div g, Abs(d) \div g>> : g \in {GCD(Abs(n), Abs(d))}})

\* The significant bits of a double of the model.
SignificandBits == 5

\* a/d scaled by a power of two into [2^(SignificandBits-1), 2^SignificandBits):
\* <<a', d', k>> with a'/d' = (a/d) * 2^k, for a, d > 0.
RECURSIVE Normalize(_, _, _)
Normalize(a, d, k) ==
    IF a < (2 ^ (SignificandBits - 1)) * d THEN Normalize(2 * a, d, k + 1)
    ELSE IF a >= (2 ^ SignificandBits) * d THEN Normalize(a, 2 * d, k - 1)
    ELSE <<a, d, k>>

\* The significand nm[1] / nm[2] rounded to an integer, ties to even, scaled
\* back by 2^(-nm[3]) and given its sign.
RoundNormalized(negative, nm) ==
    LET q == nm[1] \div nm[2]
        r == nm[1] % nm[2]
        m == IF 2 * r > nm[2] \/ (2 * r = nm[2] /\ q % 2 = 1) THEN q + 1 ELSE q
        sm == IF negative THEN -m ELSE m
    IN  IF nm[3] >= 0 THEN Frac(sm, 2 ^ nm[3]) ELSE <<sm * (2 ^ (-nm[3])), 1>>

\* The double nearest to the rational x, ties to even.
Round(x) ==
    IF x[1] = 0 THEN x
    ELSE The({RoundNormalized(x[1] < 0, nm) : nm \in {Normalize(Abs(x[1]), x[2], 0)}})

\* n/d in lowest terms for d a power of two.
RECURSIVE Reduce2(_, _)
Reduce2(n, d) ==
    IF n = 0 THEN <<0, 1>>
    ELSE IF d = 1 \/ n % 2 # 0 THEN <<n, d>>
    ELSE Reduce2(n \div 2, d \div 2)

\* The low bits that a > 0 has beyond SignificandBits bits.
RECURSIVE ExcessBits(_, _)
ExcessBits(a, s) == IF a < 2 ^ SignificandBits THEN s ELSE ExcessBits(a \div 2, s + 1)

\* n/d with the s low bits of n rounded away, ties to even (d a power of two).
DropBits(n, d, s) ==
    IF s = 0 THEN Reduce2(n, d)
    ELSE LET q == Abs(n) \div (2 ^ s)
             r == Abs(n) % (2 ^ s)
             m == IF 2 * r > 2 ^ s \/ (2 * r = 2 ^ s /\ q % 2 = 1) THEN q + 1 ELSE q
             sm == IF n < 0 THEN -m ELSE m
         IN  IF 2 ^ s >= d THEN <<sm * ((2 ^ s) \div d), 1>> ELSE Reduce2(sm, d \div (2 ^ s))

\* Round(x) for x = n/d with d a power of two.
RoundDyadic(x) ==
    IF x[1] = 0 THEN <<0, 1>>
    ELSE The({DropBits(x[1], x[2], s) : s \in {ExcessBits(Abs(x[1]), 0)}})

\* The double of a literal n/d.
Double(n, d) == The({Round(x) : x \in {Frac(n, d)}})

\* The double of a small integer.
R(n) == <<n, 1>>

RNeg(a) == <<-a[1], a[2]>>
\* The exact sum and the exact product of two doubles, whose denominators are
\* powers of two; not in lowest terms.
ExactAdd(a, b) ==
    IF a[2] >= b[2] THEN <<a[1] + b[1] * (a[2] \div b[2]), a[2]>>
    ELSE <<a[1] * (b[2] \div a[2]) + b[1], b[2]>>
ExactMul(a, b) == <<a[1] * b[1], a[2] * b[2]>>
\* The exact quotient a / b, b # 0.
ExactDiv(a, b) ==
    IF b[1] < 0 THEN Frac(-(a[1] * b[2]), a[2] * (-b[1])) ELSE Frac(a[1] * b[2], a[2] * b[1])
RAdd(a, b) == The({RoundDyadic(e) : e \in {ExactAdd(x, y) : x \in {a}, y \in {b}}})
RSub(a, b) == RAdd(a, RNeg(b))
RMul(a, b) == The({RoundDyadic(e) : e \in {ExactMul(x, y) : x \in {a}, y \in {b}}})
RDiv(a, b) == The({Round(e) : e \in {ExactDiv(x, y) : x \in {a}, y \in {b}}})
fabs(a) == <<Abs(a[1]), a[2]>>
RGt(a, b) == a[1] * b[2] > b[1] * a[2]
RGe(a, b) == a[1] * b[2] >= b[1] * a[2]
RLe(a, b) == RGe(b, a)
\* <int> cast of a non-negative double: truncation.
ToInt(a) == a[1] \div a[2]

Zero == R(0)

-----------------------------------------------------------------------------
\* argsort.cpp

\* The marker of an output slot that argsort has not written.
Unwritten == -1

\* bool cmp(a, b): the strict "greater than" on the values.
cmpGE(a, b) == RGe(a.value, b.value)
cmp(a, b) == RGt(a.value, b.value)

\* std::stable_sort(first, last, cmp): the elements ordered so that no element
\* is preceded by one that cmp puts after it, elements that cmp does not order
\* keeping their input order.  Computed by stable insertion, front to back.
RECURSIVE InsertPos(_, _, _)
InsertPos(sorted, e, k) ==
    IF k > Len(sorted) THEN k
    ELSE IF cmp(e, sorted[k]) THEN k
    ELSE InsertPos(sorted, e, k + 1)

StableInsert(sorted, e) ==
    LET k == InsertPos(sorted, e, 1)
    IN  SubSeq(sorted, 1, k - 1) \o <<e>> \o SubSeq(sorted, k, Len(sorted))

RECURSIVE stable_sort_from(_, _, _)
stable_sort_from(s, k, acc) ==
    IF k > Len(s) THEN acc
    ELSE stable_sort_from(s, k + 1, StableInsert(acc, s[k]))

stable_sort(s) == stable_sort_from(s, 1, <<>>)

\* The body of argsort for n >= 0: order_struct[i] = {i, data[i]} for i < n,
\* stable_sort, indices[i] = order_struct[i].index.  data is a 1-based
\* sequence holding data[0..]; the result holds the 0-based indices.
argsort(data, n) ==
    LET order_struct == [i \in 1..n |-> [index |-> i - 1, value |-> data[i]]]
        sorted == stable_sort(order_struct)
    IN  [i \in 1..n |-> sorted[i].index]

\* The caller's data after argsort: lines 21-24 copy data[i] into the
\* function's own array, which is the one sorted; data is only read.
ArgsortDataSorted(data, n) ==
    [i \in 1..Len(data) |-> IF i <= n THEN data[argsort(data, n)[i] + 1] ELSE data[i]]
ArgsortData(data, n) == data

\* new IndexedElement[n]: a negative n makes the array new-expression throw
\* (std::bad_array_new_length / std::bad_alloc); nothing catches it.
NewArrayThrows(n) == n < 0

\* The largest n, and the capacity of the caller's two buffers.
MaxN == 3
\* The negative values of n tried are -MaxNeg .. -1.
MaxNeg == 2
SortVals == {R(0), R(1), R(3)}

SortIdle ==
    /\ sort_data = <<>>
    /\ sort_n = 0
    /\ sort_indices = <<>>
    /\ sort_pc = "off"

SortInit ==
    /\ sort_data \in [1..MaxN -> SortVals]
    /\ sort_n \in (-MaxNeg)..MaxN
    /\ sort_indices = [i \in 1..MaxN |-> Unwritten]
    /\ sort_pc = "idle"

\* argsort(data, indices, n) when the allocation succeeds.
ArgsortReturn ==
    /\ sort_pc = "idle"
    /\ ~NewArrayThrows(sort_n)
    /\ sort_indices' = [i \in 1..MaxN |->
            IF i <= sort_n THEN argsort(sort_data, sort_n)[i]
            ELSE sort_indices[i]]
    /\ sort_data' = ArgsortData(sort_data, sort_n)
    /\ sort_pc' = "returned"
    /\ UNCHANGED <<sort_n, buildVars, kernelVars, trainVars, queryVars, sigmoidVars, filterVars>>

\* argsort(data, indices, n) when the allocation throws: the function is left
\* at line 19, before any store to indices.
ArgsortThrow ==
    /\ sort_pc = "idle"
    /\ NewArrayThrows(sort_n)
    /\ sort_pc' = "thrown"
    /\ UNCHANGED <<sort_data, sort_n, sort_indices, buildVars, kernelVars, trainVars, queryVars, sigmoidVars, filterVars>>

-----------------------------------------------------------------------------
\* moltr/calculator.py: the tables a Calculator holds.  The file is not among
\* the sources; the tables are built as the specification describes them.

\* np.random.binomial(1, p): the labels of the demonstration are 0 or 1.
Labels == {0, 1}

\* Element idx (0-based) of a C array held as a 1-based sequence.
At(arr, idx) == arr[idx + 1]

RECURSIVE SumSeq(_)
SumSeq(s) == IF s = <<>> THEN 0 ELSE s[1] + SumSeq(Tail(s))

RECURSIVE MaxSeq(_)
MaxSeq(s) ==
    IF s = <<>> THEN 0
    ELSE LET m == MaxSeq(Tail(s)) IN IF s[1] > m THEN s[1] ELSE m

\* 1 / log2(i + 2) for i = 0, 1, ..., rounded to a multiple of 1/64.
DiscountValues ==
    <<Double(64, 64), Double(40, 64), Double(32, 64), Double(28, 64),
      Double(25, 64), Double(23, 64), Double(21, 64), Double(20, 64)>>

\* The discount table: an entry for every index the kernel reads for the
\* largest group, which is 1 + rank for the ranks 0 .. group - 1.
compute_discounts(groups) ==
    [i \in 1..(MaxSeq(groups) + 1) |-> DiscountValues[i]]

\* boundary[0] = 0, boundary[k] = boundary[k-1] + group[k-1].
compute_query_boundaries(groups) ==
    [k \in 1..(Len(groups) + 1) |-> SumSeq(SubSeq(groups, 1, k - 1))]

\* gain(label) = 2^label - 1.
gain(label) == 2 ^ label - 1

\* The ideal DCG of labels: sorted descending, gain times discount summed
\* over the first max_pos positions.
RECURSIVE DcgFrom(_, _, _)
DcgFrom(sorted_labels, pos, max_pos) ==
    IF pos > Len(sorted_labels) \/ pos > max_pos THEN Zero
    ELSE RAdd(RMul(R(gain(sorted_labels[pos])), DiscountValues[pos]),
              DcgFrom(sorted_labels, pos + 1, max_pos))

\* The truncation position of the demonstration.
MAX_NDCG_POS == 10

compute_inverse_max_dcg(labels, max_pos) ==
    LET order == argsort([i \in 1..Len(labels) |-> R(labels[i])], Len(labels))
        ideal == DcgFrom([i \in 1..Len(labels) |-> labels[order[i] + 1]], 1, max_pos)
    IN  IF ideal = Zero THEN Zero ELSE RDiv(R(1), ideal)

\* The sigmoid table: 4 equal bins over [-1, 1], the sigmoid at each bin's
\* lower end rounded to a multiple of 1/8 (0.5 at 0), and the factor
\* bin_count / (MAX - MIN) = 2.
SigmoidTable == <<Double(2, 8), Double(3, 8), Double(4, 8), Double(5, 8)>>
MIN_SIGMOID_ARG == R(-1)
MAX_SIGMOID_ARG == R(1)
SigmoidIdxFactor == RDiv(R(Len(SigmoidTable)), RSub(MAX_SIGMOID_ARG, MIN_SIGMOID_ARG))

Calculator(labels, groups, max_pos) ==
    LET qb == compute_query_boundaries(groups)
    IN  [query_boundaries |-> qb,
         discounts |-> compute_discounts(groups),
         inverse_max_dcgs |->
            [q \in 1..Len(groups) |->
                compute_inverse_max_dcg(SubSeq(labels, qb[q] + 1, qb[q + 1]), max_pos)],
         sigmoids |-> SigmoidTable,
         sigmoid_idx_factor |-> SigmoidIdxFactor]

-----------------------------------------------------------------------------
\* moltr/lambdaobj.pyx

\* Lines 20-25: the element of sigmoid_table that get_sigmoid reads.
SigmoidIndexFromZero(score, n_sigmoid_bins, min_sigmoid_arg, max_sigmoid_arg, sigmoid_idx_factor) ==
    IF RLe(score, min_sigmoid_arg) THEN 0
    ELSE IF RGe(score, max_sigmoid_arg) THEN n_sigmoid_bins - 1
    ELSE ToInt(RMul(fabs(score), sigmoid_idx_factor))
SigmoidIndex(score, n_sigmoid_bins, min_sigmoid_arg, max_sigmoid_arg, sigmoid_idx_factor) ==
    IF RLe(score, min_sigmoid_arg) THEN 0
    ELSE IF RGe(score, max_sigmoid_arg) THEN n_sigmoid_bins - 1
    ELSE ToInt(RMul(RSub(score, min_sigmoid_arg), sigmoid_idx_factor))

get_sigmoid(score, sigmoid_table, n_sigmoid_bins, min_sigmoid_arg, max_sigmoid_arg, sigmoid_idx_factor) ==
    At(sigmoid_table,
       SigmoidIndex(score, n_sigmoid_bins, min_sigmoid_arg, max_sigmoid_arg,
                    sigmoid_idx_factor))

\* The arguments of get_gradients as the objective callbacks pass them: the
\* labels as doubles, the predictions and a Calculator's tables.  The sigmoid
\* table, its length, MIN_SIGMOID_ARG, MAX_SIGMOID_ARG and sigmoid_idx_factor
\* are the same in every call and are read from their definitions; groups is
\* passed and never read by the kernel.
KernelArgs(labels, preds, groups, calculator) ==
    [gains |-> [i \in 1..Len(labels) |-> R(labels[i])],
     preds |-> preds,
     n_preds |-> Len(preds),
     query_boundaries |-> calculator.query_boundaries,
     n_queries |-> Len(calculator.query_boundaries) - 1,
     discounts |-> calculator.discounts,
     inverse_max_dcgs |-> calculator.inverse_max_dcgs]

\* start = query_boundaries[i], end = query_boundaries[i + 1]
QueryStart(k, q) == At(k.query_boundaries, q)
QueryEnd(k, q) == At(k.query_boundaries, q + 1)
\* cnt = <int>(end - start)
QueryCnt(k, q) == QueryEnd(k, q) - QueryStart(k, q)

\* The element of grad and of hess that the statements of lines 93-96 address
\* for document d of the query that starts at start: grad[start + d].
OutIndexNoOffset(start, d) == d
OutIndex(start, d) == start + d

\* argsort((&preds[0]) + start, sorted_idx, cnt)
SortedIdx(k, q) ==
    argsort(SubSeq(k.preds, QueryStart(k, q) + 1, QueryEnd(k, q)), QueryCnt(k, q))

\* Lines 49-56: 1 unless the best and the worst sorted score are equal.
ShouldAdjustAlways(k, q, sorted_idx) == 1
ShouldAdjust(k, q, sorted_idx) ==
    LET start == QueryStart(k, q)
        best_score == At(k.preds, start + At(sorted_idx, 0))
        worst_score == At(k.preds, start + At(sorted_idx, QueryCnt(k, q) - 1))
    IN  IF best_score # worst_score THEN 1 ELSE 0

\* Line 74: gain_high > gain_low for the documents at sorted positions i, j.
QualifiesGE(k, q, sorted_idx, i, j) ==
    LET start == QueryStart(k, q)
    IN  RGe(At(k.gains, start + At(sorted_idx, i)),
            At(k.gains, start + At(sorted_idx, j)))
Qualifies(k, q, sorted_idx, i, j) ==
    LET start == QueryStart(k, q)
    IN  RGt(At(k.gains, start + At(sorted_idx, i)),
            At(k.gains, start + At(sorted_idx, j)))

\* Line 85: the element of discounts read for the document at sorted
\* position pos, discounts[1 + pos].
DiscountIndex(pos) == 1 + pos

\* Lines 75-91: p_lambda and p_hess of the pair at sorted positions i, j, and
\* the intermediate values they are computed from.
PairTerms(k, q, sorted_idx, should_adjust, i, j) ==
    LET start == QueryStart(k, q)
        high == At(sorted_idx, i)
        low == At(sorted_idx, j)
        gain_high == At(k.gains, start + high)
        gain_low == At(k.gains, start + low)
        score_high == At(k.preds, start + high)
        score_low == At(k.preds, start + low)
        delta_score == RSub(score_high, score_low)
        p == get_sigmoid(delta_score, SigmoidTable, Len(SigmoidTable),
                         MIN_SIGMOID_ARG, MAX_SIGMOID_ARG, SigmoidIdxFactor)
        gain_diff == RSub(gain_high, gain_low)
        paired_discount ==
            fabs(RSub(At(k.discounts, DiscountIndex(j)), At(k.discounts, DiscountIndex(i))))
        undivided == RMul(RMul(gain_diff, paired_discount), At(k.inverse_max_dcgs, q))
        abs_delta_ndcg ==
            IF should_adjust = 1
            THEN RDiv(undivided, RAdd(Double(1, 100), fabs(delta_score)))
            ELSE undivided
    IN  [high |-> high,
         low |-> low,
         delta_score |-> delta_score,
         p |-> p,
         gain_diff |-> gain_diff,
         paired_discount |-> paired_discount,
         undivided |-> undivided,
         abs_delta_ndcg |-> abs_delta_ndcg,
         p_lambda |-> RMul(p, RNeg(abs_delta_ndcg)),
         p_hess |-> RMul(RMul(p, RSub(R(2), p)), RMul(R(2), abs_delta_ndcg))]

LoadPairAddsLow(g, h, start, t) ==
    LET ih == OutIndex(start, t.high)
        il == OutIndex(start, t.low)
    IN  [ih |-> ih,
         il |-> il,
         grad_high |-> RAdd(At(g, ih), t.p_lambda),
         hess_high |-> RAdd(At(h, ih), t.p_hess),
         grad_low |-> RAdd(At(g, il), t.p_lambda),
         hess_low |-> RAdd(At(h, il), t.p_hess)]
\* Lines 93-96, the loads and the additions: the four values to store and
\* the elements they go to, computed from the current grad and hess.
LoadPair(g, h, start, t) ==
    LET ih == OutIndex(start, t.high)
        il == OutIndex(start, t.low)
    IN  [ih |-> ih,
         il |-> il,
         grad_high |-> RAdd(At(g, ih), t.p_lambda),
         hess_high |-> RAdd(At(h, ih), t.p_hess),
         grad_low |-> RSub(At(g, il), t.p_lambda),
         hess_low |-> RAdd(At(h, il), t.p_hess)]

\* Lines 93-96, the stores.
StoreGrad(g, ld) ==
    [g EXCEPT ![ld.ih + 1] = ld.grad_high, ![ld.il + 1] = ld.grad_low]
StoreHess(h, ld) ==
    [h EXCEPT ![ld.ih + 1] = ld.hess_high, ![ld.il + 1] = ld.hess_low]

\* The first pair at or after (i, j), in the order of the two loops of lines
\* 66 and 70, that passes the test of line 74; <<cnt, 0>> when there is none.
RECURSIVE NextPairUpper(_, _, _, _, _)
NextPairUpper(k, q, sorted_idx, i, j) ==
    IF i >= QueryCnt(k, q) THEN <<QueryCnt(k, q), 0>>
    ELSE IF j >= QueryCnt(k, q) THEN NextPairUpper(k, q, sorted_idx, i + 1, i + 2)
    ELSE IF j <= i THEN NextPairUpper(k, q, sorted_idx, i, i + 1)
    ELSE IF Qualifies(k, q, sorted_idx, i, j) THEN <<i, j>>
    ELSE NextPairUpper(k, q, sorted_idx, i, j + 1)
RECURSIVE NextPair(_, _, _, _, _)
NextPair(k, q, sorted_idx, i, j) ==
    IF i >= QueryCnt(k, q) THEN <<QueryCnt(k, q), 0>>
    ELSE IF j >= QueryCnt(k, q) THEN NextPair(k, q, sorted_idx, i + 1, 0)
    ELSE IF Qualifies(k, q, sorted_idx, i, j) THEN <<i, j>>
    ELSE NextPair(k, q, sorted_idx, i, j + 1)

\* Lines 66-96 run by one thread without interruption, from pair (i, j) on.
RECURSIVE PairLoop(_, _, _, _, _, _, _)
PairLoop(k, q, sorted_idx, should_adjust, i, j, gh) ==
    LET nxt == NextPair(k, q, sorted_idx, i, j)
    IN  IF nxt[1] >= QueryCnt(k, q) THEN gh
        ELSE LET t == PairTerms(k, q, sorted_idx, should_adjust, nxt[1], nxt[2])
                 ld == LoadPair(gh.grad, gh.hess, QueryStart(k, q), t)
             IN  PairLoop(k, q, sorted_idx, should_adjust, nxt[1], nxt[2] + 1,
                          [grad |-> StoreGrad(gh.grad, ld),
                           hess |-> StoreHess(gh.hess, ld)])

\* get_gradients_for_one_query run by one thread without interruption.
get_gradients_for_one_query(k, q, gh) ==
    LET sorted_idx == SortedIdx(k, q)
    IN  PairLoop(k, q, sorted_idx, ShouldAdjust(k, q, sorted_idx), 0, 0, gh)

\* memset(buf, 0, n * sizeof(double))
memset_skipped(buf, n) == buf
memset_short(buf, n) == [x \in 1..Len(buf) |-> IF x < n THEN Zero ELSE buf[x]]
memset(buf, n) == [x \in 1..Len(buf) |-> IF x <= n THEN Zero ELSE buf[x]]

\* _get_gradients with the iterations of the prange run one after another in
\* index order.
RECURSIVE QueryLoop(_, _, _)
QueryLoop(k, q, gh) ==
    IF q >= k.n_queries THEN gh
    ELSE QueryLoop(k, q + 1, get_gradients_for_one_query(k, q, gh))

_get_gradients(k, g, h) ==
    QueryLoop(k, 0, [grad |-> memset(g, k.n_preds), hess |-> memset(h, k.n_preds)])

\* ---- get_gradients called on the caller's buffers, its prange iterations
\* interleaved.

\* The most documents of a data set and the most queries they form.
MaxDocs == 4
MaxQueries == 2
\* The most calls of get_gradients.
MaxCalls == 2
\* The predictions.
Scores == {R(0), R(1)}
\* What an output buffer may hold before the first call.
BufferFill == {Zero, R(1)}

\* The group sequences: at most MaxQueries queries of one or more documents,
\* MaxDocs documents at most in all.
Groupings ==
    {g \in UNION {[1..m -> 1..MaxDocs] : m \in 1..MaxQueries} : SumSeq(g) <= MaxDocs}

Queries == 0..(kin.n_queries - 1)

PendingTask == [pc |-> "pending", sorted_idx |-> <<>>, should_adjust |-> 0,
                i |-> 0, j |-> 0, ld |-> <<>>]

KernelIdle ==
    /\ kin = <<>>
    /\ grad = <<>>
    /\ hess = <<>>
    /\ k_pc = "off"
    /\ calls = 0
    /\ task = <<>>
    /\ written = <<>>
    /\ prev = <<>>

KernelInit ==
    /\ \E groups \in Groupings :
        \E labels \in [1..SumSeq(groups) -> Labels], preds \in [1..SumSeq(groups) -> Scores] :
            kin = KernelArgs(labels, preds, groups, Calculator(labels, groups, MAX_NDCG_POS))
    /\ \E fill \in BufferFill :
        /\ grad = [x \in 1..kin.n_preds |-> fill]
        /\ hess = [x \in 1..kin.n_preds |-> fill]
    /\ k_pc = "idle"
    /\ calls = 0
    /\ task = <<>>
    /\ written = <<>>
    /\ prev = <<>>

\* get_gradients is entered: lines 117-118 zero the two buffers, then the
\* prange of line 123 hands every query to a thread.
KernelCall ==
    /\ k_pc \in {"idle", "returned"}
    /\ calls < MaxCalls
    /\ prev' = [grad |-> grad, hess |-> hess]
    /\ grad' = memset(grad, kin.n_preds)
    /\ hess' = memset(hess, kin.n_preds)
    /\ task' = [q \in 1..kin.n_queries |-> PendingTask]
    /\ written' = [x \in 1..kin.n_preds |-> {}]
    /\ k_pc' = "running"
    /\ UNCHANGED <<kin, calls, sortVars, buildVars, trainVars, queryVars, sigmoidVars, filterVars>>

\* The task of query q after the pair at (i, j) is done with: at the next pair
\* that passes line 74, about to load what it adds to; or, with no pair left,
\* ended (line 97 frees the index buffer).  Reaching that pair reads only the
\* task's own variables and the inputs.
Advance(t, q, i, j) ==
    LET nxt == NextPair(kin, q, t.sorted_idx, i, j)
    IN  [t EXCEPT !.pc = IF nxt[1] >= QueryCnt(kin, q) THEN "done" ELSE "scan",
                  !.i = nxt[1],
                  !.j = nxt[2],
                  !.ld = <<>>]

\* The loads and additions of lines 93-96 for the pair the task is at.
Loaded(t, q) ==
    [t EXCEPT !.pc = "loaded",
              !.ld = LoadPair(grad, hess, QueryStart(kin, q),
                        PairTerms(kin, q, t.sorted_idx, t.should_adjust, t.i, t.j))]

\* A thread takes the iteration for query q: lines 43-56 (the sort and
\* should_adjust), then the loops of lines 66-91 up to the loads of the first
\* pair that passes line 74.
TaskBegin(q) ==
    /\ k_pc = "running"
    /\ task[q + 1].pc = "pending"
    /\ LET sorted_idx == SortedIdx(kin, q)
           sorted == [task[q + 1] EXCEPT
                        !.sorted_idx = sorted_idx,
                        !.should_adjust = ShouldAdjust(kin, q, sorted_idx)]
           at == Advance(sorted, q, 0, 0)
       IN  task' = [task EXCEPT ![q + 1] = IF at.pc = "done" THEN at ELSE Loaded(at, q)]
    /\ UNCHANGED <<kin, grad, hess, k_pc, calls, written, prev, sortVars, buildVars, trainVars, queryVars, sigmoidVars, filterVars>>

\* The loads and additions of lines 93-96 for a later pair.
TaskLoad(q) ==
    /\ k_pc = "running"
    /\ task[q + 1].pc = "scan"
    /\ task' = [task EXCEPT ![q + 1] = Loaded(@, q)]
    /\ UNCHANGED <<kin, grad, hess, k_pc, calls, written, prev, sortVars, buildVars, trainVars, queryVars, sigmoidVars, filterVars>>

\* The stores of lines 93-96 for the loaded pair; the loops then go on to the
\* next pair.
TaskStore(q) ==
    /\ k_pc = "running"
    /\ task[q + 1].pc = "loaded"
    /\ LET ld == task[q + 1].ld
       IN  /\ grad' = StoreGrad(grad, ld)
           /\ hess' = StoreHess(hess, ld)
           /\ written' = [written EXCEPT ![ld.ih + 1] = @ \cup {q},
                                         ![ld.il + 1] = @ \cup {q}]
    /\ task' = [task EXCEPT ![q + 1] = Advance(@, q, @.i, @.j + 1)]
    /\ UNCHANGED <<kin, k_pc, calls, prev, sortVars, buildVars, trainVars, queryVars, sigmoidVars, filterVars>>

\* The prange is left when all its iterations have ended; get_gradients
\* returns.
KernelReturn ==
    /\ k_pc = "running"
    /\ \A q \in Queries : task[q + 1].pc = "done"
    /\ k_pc' = "returned"
    /\ calls' = calls + 1
    /\ UNCHANGED <<kin, grad, hess, task, written, prev, sortVars, buildVars, trainVars, queryVars, sigmoidVars, filterVars>>

-----------------------------------------------------------------------------
\* The demonstration notebook: the objective callbacks and the training
\* drivers.

\* class DatasetWithCalculator
DatasetWithCalculator(label, group) ==
    [label |-> label,
     group |-> group,
     calculator |-> Calculator(label, group, MAX_NDCG_POS)]

\* class DatasetWithTwoLabels, but for alpha, which is the variable alpha.
DatasetWithTwoLabels(label, label_2, group) ==
    [label_1 |-> label,
     label_2 |-> label_2,
     group |-> group,
     calculator_1 |-> Calculator(label, group, MAX_NDCG_POS),
     calculator_2 |-> Calculator(label_2, group, MAX_NDCG_POS)]

\* DatasetWithTwoLabels.set_alpha: the new value of self.alpha.
set_alpha_ignored(self_alpha, a) == self_alpha
set_alpha(self_alpha, a) == a

\* np.zeros(n)
np_zeros(n) == [x \in 1..n |-> Zero]

\* get_grad_hess: two fresh zero arrays handed to get_gradients, which has
\* returned when the call returns.  For len(preds) >= sum(groups).
get_grad_hess(labels, preds, groups, calculator) ==
    _get_gradients(KernelArgs(labels, preds, groups, calculator),
                   np_zeros(Len(preds)), np_zeros(Len(preds)))

\* alpha * a + (1 - alpha) * b, element by element (line 417).
BlendSwapped(a, x, y) ==
    [i \in 1..Len(x) |-> RAdd(RMul(RSub(R(1), a), x[i]), RMul(a, y[i]))]
Blend(a, x, y) ==
    [i \in 1..Len(x) |-> RAdd(RMul(a, x[i]), RMul(RSub(R(1), a), y[i]))]

\* The record of a callback that raised.
Raised(kind, preds) ==
    [outcome |-> kind, preds |-> preds, alpha |-> <<>>, grad |-> <<>>, hess |-> <<>>]

\* combined_objective(preds, dataset), dataset.alpha being a.  "Error" of line
\* 408 is no name of the notebook: the raise statement raises NameError.
combined_objective(preds, d, a) ==
    IF Len(d.group) = 0 THEN Raised("NameError", preds)
    ELSE LET gh_1 == get_grad_hess(d.label_1, preds, d.group, d.calculator_1)
             gh_2 == get_grad_hess(d.label_2, preds, d.group, d.calculator_2)
         IN  [outcome |-> "returned",
              preds |-> preds,
              alpha |-> a,
              grad |-> Blend(a, gh_1.grad, gh_2.grad),
              hess |-> Blend(a, gh_1.hess, gh_2.hess)]

\* lambdamart_objective(preds, dataset), for len(preds) >= sum(groups) > 0 or
\* no groups at all.
lambdamart_objective(preds, d) ==
    IF Len(d.group) = 0 THEN Raised("NameError", preds)
    ELSE LET gh == get_grad_hess(d.label, preds, d.group, d.calculator)
         IN  [outcome |-> "returned",
              preds |-> preds,
              alpha |-> <<>>,
              grad |-> gh.grad,
              hess |-> gh.hess]

\* Every outcome of lambdamart_objective(preds, dataset) for predictions of
\* any length.  An empty preds fails the bounds check of &preds[0] (line 158).
\* With fewer predictions than documents the kernel reads preds and writes
\* grad and hess past their ends: the process is killed, or the call returns
\* with whatever the two arrays then hold.
LambdamartOutcomes(preds, d) ==
    IF Len(d.group) = 0 THEN {lambdamart_objective(preds, d)}
    ELSE IF Len(preds) = 0 THEN {Raised("IndexError", preds)}
    ELSE IF Len(preds) < SumSeq(d.group)
    THEN {Raised("killed", preds)} \cup
         {[outcome |-> "returned", preds |-> preds, alpha |-> <<>>, grad |-> g, hess |-> h] :
            g \in [1..Len(preds) -> BufferFill], h \in [1..Len(preds) -> BufferFill]}
    ELSE {lambdamart_objective(preds, d)}

\* The most documents of the training set of the alpha sweep.
MaxTrainDocs == 2
\* The boosting rounds of one lgb.train (num_trees).
MaxRounds == 2
\* alpha_values: 0, 1/AlphaSteps, ..., 1 (np.arange(0.0, 1.1, 0.1) has 10 steps).
AlphaSteps == 2
alpha_values == [i \in 1..(AlphaSteps + 1) |-> Double(i - 1, AlphaSteps)]

\* The label arrays left by drop_requests_with_no_interactions: every
\* request has a document with a positive label.
FilteredLabels(groups) ==
    LET qb == compute_query_boundaries(groups)
    IN  {l \in [1..SumSeq(groups) -> Labels] :
            \A q \in 1..Len(groups) : \E x \in (qb[q] + 1)..qb[q + 1] : l[x] > 0}

NoCallback == [outcome |-> "none", preds |-> <<>>, alpha |-> <<>>, grad |-> <<>>, hess |-> <<>>]

TrainIdle ==
    /\ dataset = <<>>
    /\ alpha = Zero
    /\ t_pc = "off"
    /\ sweep_i = 0
    /\ run_alpha = Zero
    /\ round = 0
    /\ cb = NoCallback

\* train_dataset of lines 472-479: n_requests pages of n_positions documents,
\* both labels filtered, alpha = 1.0.
TrainInit ==
    /\ \E n_positions \in 1..MaxTrainDocs, n_requests \in 1..MaxTrainDocs :
        /\ n_positions * n_requests <= MaxTrainDocs
        /\ LET group == [r \in 1..n_requests |-> n_positions]
           IN  \E label \in FilteredLabels(group), label_2 \in FilteredLabels(group) :
                    dataset = DatasetWithTwoLabels(label, label_2, group)
    /\ alpha = R(1)
    /\ t_pc = "sweep"
    /\ sweep_i = 0
    /\ run_alpha = Zero
    /\ round = 0
    /\ cb = NoCallback

\* The loop of line 522 calls fit_combined_objective(train_dataset, alpha):
\* set_alpha, then lgb.train is entered.
FitCombinedObjective ==
    /\ t_pc = "sweep"
    /\ sweep_i < Len(alpha_values)
    /\ run_alpha' = At(alpha_values, sweep_i)
    /\ alpha' = set_alpha(alpha, At(alpha_values, sweep_i))
    /\ round' = 0
    /\ t_pc' = "train"
    /\ UNCHANGED <<dataset, sweep_i, cb, sortVars, buildVars, kernelVars, queryVars, sigmoidVars, filterVars>>

\* One boosting round of lgb.train: the trainer calls fobj with its current
\* predictions, one per document, and takes the gradients and Hessians.
TrainRound ==
    /\ t_pc = "train"
    /\ round < MaxRounds
    /\ \E preds \in [1..SumSeq(dataset.group) -> Scores] :
        cb' = combined_objective(preds, dataset, alpha)
    /\ round' = round + 1
    /\ UNCHANGED <<dataset, alpha, t_pc, sweep_i, run_alpha, sortVars, buildVars, kernelVars, queryVars, sigmoidVars, filterVars>>

\* lgb.train returns the model after its last round; the loop goes on to the
\* next alpha.
TrainReturn ==
    /\ t_pc = "train"
    /\ round = MaxRounds
    /\ t_pc' = "sweep"
    /\ sweep_i' = sweep_i + 1
    /\ UNCHANGED <<dataset, alpha, run_alpha, round, cb, sortVars, buildVars, kernelVars, queryVars, sigmoidVars, filterVars>>

\* ---- lambdamart_objective called directly, on any data set and with
\* predictions of any length.

DirectInit ==
    /\ \E group \in Groupings \cup {<<>>} :
        \E label \in [1..SumSeq(group) -> Labels] :
            dataset = DatasetWithCalculator(label, group)
    /\ alpha = Zero
    /\ t_pc = "direct"
    /\ sweep_i = 0
    /\ run_alpha = Zero
    /\ round = 0
    /\ cb = NoCallback

DirectCall ==
    /\ t_pc = "direct"
    /\ \E n \in 0..(SumSeq(dataset.group) + 1) :
        \E preds \in [1..n -> Scores] :
            cb' \in LambdamartOutcomes(preds, dataset)
    /\ t_pc' = "called"
    /\ UNCHANGED <<dataset, alpha, sweep_i, run_alpha, round, sortVars, buildVars, kernelVars, queryVars, sigmoidVars, filterVars>>

-----------------------------------------------------------------------------
\* build.sh

CC == "/usr/local/opt/llvm/bin/clang++"
Artifacts == {"argsort.o", "libargsort.a", "lambdaobj.c", "build", "lambdaobj.so"}
MissingToolchainMessage == "LLVM is required (please run 'brew install llvm')."

BuildIdle ==
    /\ fs = {}
    /\ b_pc = "off"
    /\ b_out = <<>>
    /\ b_status = 0
    /\ b_ran = <<>>

\* The script starts in a checkout that may hold artifacts of an earlier
\* build, on a machine that has the compiler or has not.
BuildInit ==
    /\ fs \in SUBSET (Artifacts \cup {CC})
    /\ b_pc = "test"
    /\ b_out = <<>>
    /\ b_status = 0
    /\ b_ran = <<>>

\* One command of the script: it runs, leaves its status in $?, and the
\* script goes on to the next line whatever the status (there is no set -e).
Run(cmd, status, files, next) ==
    /\ b_ran' = Append(b_ran, cmd)
    /\ b_status' = status
    /\ fs' = files
    /\ b_pc' = next

\* if [ -f "$CC" ]; then
BuildTest ==
    /\ b_pc = "test"
    /\ b_pc' = IF CC \in fs THEN "compile" ELSE "echo"
    /\ b_status' = IF CC \in fs THEN 0 ELSE 1
    /\ UNCHANGED <<fs, b_out, b_ran, sortVars, kernelVars, trainVars, queryVars, sigmoidVars, filterVars>>

\* "$CC" -c argsort.cpp: writes argsort.o, or fails and writes nothing.
BuildCompile ==
    /\ b_pc = "compile"
    /\ \/ Run("cc -c argsort.cpp", 0, fs \cup {"argsort.o"}, "ar")
       \/ Run("cc -c argsort.cpp", 1, fs, "ar")
    /\ UNCHANGED <<b_out, sortVars, kernelVars, trainVars, queryVars, sigmoidVars, filterVars>>

\* ar rcs libargsort.a argsort.o
BuildArchive ==
    /\ b_pc = "ar"
    /\ IF "argsort.o" \in fs
       THEN Run("ar rcs libargsort.a argsort.o", 0, fs \cup {"libargsort.a"}, "rm_o")
       ELSE Run("ar rcs libargsort.a argsort.o", 1, fs, "rm_o")
    /\ UNCHANGED <<b_out, sortVars, kernelVars, trainVars, queryVars, sigmoidVars, filterVars>>

\* rm argsort.o
BuildRmObject ==
    /\ b_pc = "rm_o"
    /\ Run("rm argsort.o", IF "argsort.o" \in fs THEN 0 ELSE 1,
           fs \ {"argsort.o"}, "setup")
    /\ UNCHANGED <<b_out, sortVars, kernelVars, trainVars, queryVars, sigmoidVars, filterVars>>

\* python setup.py build_ext --inplace: cythonizes lambdaobj.pyx to
\* lambdaobj.c, compiles under build/ and links against libargsort.a.
BuildExt ==
    /\ b_pc = "setup"
    /\ \/ /\ "libargsort.a" \in fs
          /\ Run("python setup.py build_ext --inplace", 0,
                 fs \cup {"lambdaobj.c", "build", "lambdaobj.so"}, "rm_c")
       \/ Run("python setup.py build_ext --inplace", 1,
              fs \cup {"lambdaobj.c", "build"}, "rm_c")
       \/ Run("python setup.py build_ext --inplace", 1, fs, "rm_c")
    /\ UNCHANGED <<b_out, sortVars, kernelVars, trainVars, queryVars, sigmoidVars, filterVars>>

\* rm lambdaobj.c libargsort.a
BuildRmIntermediate ==
    /\ b_pc = "rm_c"
    /\ Run("rm lambdaobj.c libargsort.a",
           IF {"lambdaobj.c", "libargsort.a"} \subseteq fs THEN 0 ELSE 1,
           fs \ {"lambdaobj.c", "libargsort.a"}, "rm_build")
    /\ UNCHANGED <<b_out, sortVars, kernelVars, trainVars, queryVars, sigmoidVars, filterVars>>

\* rm -rf build; the script ends with this command's status.
BuildRmBuildDir ==
    /\ b_pc = "rm_build"
    /\ Run("rm -rf build", 0, fs \ {"build"}, "exited")
    /\ UNCHANGED <<b_out, sortVars, kernelVars, trainVars, queryVars, sigmoidVars, filterVars>>

\* else echo "LLVM is required ..."; the script ends with echo's status.
BuildEcho ==
    /\ b_pc = "echo"
    /\ b_out' = Append(b_out, MissingToolchainMessage)
    /\ b_status' = 0
    /\ b_pc' = "exited"
    /\ UNCHANGED <<fs, b_ran, sortVars, kernelVars, trainVars, queryVars, sigmoidVars, filterVars>>

-----------------------------------------------------------------------------
\* One call of get_gradients as the objective callbacks make it, on buffers
\* that np.zeros has just created, the queries run one after another and
\* every pair that passes the test of line 74 taken in its own step.

\* The most documents of the call and the largest label.
MaxPairDocs == 3
MaxLabel == 2

PairGroupings ==
    {g \in UNION {[1..m -> 1..MaxPairDocs] : m \in 1..MaxQueries} :
        SumSeq(g) <= MaxPairDocs}

\* The parameters through which lines 93-96 store: grad and hess.
GradBufferIsPreds == "preds"
GradBuffer == "grad"
HessBuffer == "hess"

\* get_grad_hess, lines 384-402: the arrays handed to get_gradients, under
\* the names of its parameters, and the labels they were made from.
KernelMemory(labels, preds, groups, calculator) ==
    LET k == KernelArgs(labels, preds, groups, calculator)
    IN  [label |-> labels,
         gains |-> k.gains,
         preds |-> k.preds,
         groups |-> groups,
         n_preds |-> k.n_preds,
         query_boundaries |-> k.query_boundaries,
         n_queries |-> k.n_queries,
         discounts |-> k.discounts,
         inverse_max_dcgs |-> k.inverse_max_dcgs,
         sigmoid_table |-> calculator.sigmoids,
         grad |-> [x \in 1..Len(preds) |-> Zero],
         hess |-> [x \in 1..Len(preds) |-> Zero]]

\* The arrays of a call that it is not to write.
Inputs(m) ==
    [gains |-> m.gains,
     preds |-> m.preds,
     groups |-> m.groups,
     query_boundaries |-> m.query_boundaries,
     discounts |-> m.discounts,
     inverse_max_dcgs |-> m.inverse_max_dcgs,
     sigmoid_table |-> m.sigmoid_table]

\* Lines 50-51: the positions of sorted_idx read for best_score and
\* worst_score, sorted_idx[0] and sorted_idx[cnt - 1].  (The loops of lines
\* 66-71 read positions of range(cnt) only.)
BestWorstPositions(cnt) == {0, cnt - 1}

NoQuery == [q |-> 0, sorted_idx |-> <<>>, should_adjust |-> 0, i |-> 0, j |-> 0,
            sorted_reads |-> {}, preds_read |-> FALSE]

QueryIdle ==
    /\ mem = <<>>
    /\ q_pc = "off"
    /\ q_cur = NoQuery
    /\ q_log = <<>>

\* The group sequences that hold a query without documents: at most
\* MaxQueries queries, MaxPairDocs documents at most and one at least.
EmptyGroupings ==
    {g \in UNION {[1..m -> 0..MaxPairDocs] : m \in 1..MaxQueries} :
        /\ SumSeq(g) \in 1..MaxPairDocs
        /\ \E x \in 1..Len(g) : g[x] = 0}

QueryInitEmpty ==
    /\ \E groups \in EmptyGroupings :
         \E labels \in [1..SumSeq(groups) -> 0..MaxLabel] :
           \E preds \in [1..SumSeq(groups) -> Scores] :
             mem = KernelMemory(labels, preds, groups,
                                Calculator(labels, groups, MAX_NDCG_POS))
    /\ q_pc = "idle"
    /\ q_cur = NoQuery
    /\ q_log = <<>>

QueryInit ==
    /\ \E groups \in PairGroupings :
         \E labels \in [1..SumSeq(groups) -> 0..MaxLabel] :
           \E preds \in [1..SumSeq(groups) -> Scores] :
             mem = KernelMemory(labels, preds, groups,
                                Calculator(labels, groups, MAX_NDCG_POS))
    /\ q_pc = "idle"
    /\ q_cur = NoQuery
    /\ q_log = <<>>

\* _get_gradients, lines 117-118: the two memsets; the prange starts.
QueryCall ==
    /\ q_pc = "idle"
    /\ mem' = [mem EXCEPT ![GradBuffer] = memset(@, mem.n_preds),
                          ![HessBuffer] = memset(@, mem.n_preds)]
    /\ q_pc' = "enter"
    /\ UNCHANGED <<q_cur, q_log, sortVars, buildVars, kernelVars, trainVars, sigmoidVars, filterVars>>

\* get_gradients_for_one_query, lines 43-65: the sort of the query's scores,
\* should_adjust, and the loops run up to the first pair that passes line 74.
QueryEnter ==
    /\ q_pc = "enter"
    /\ QueryCnt(mem, q_cur.q) > 0
    /\ LET q == q_cur.q
           start == QueryStart(mem, q)
           cnt == QueryCnt(mem, q)
           sorted_idx == SortedIdx(mem, q)
           nxt == NextPair(mem, q, sorted_idx, 0, 0)
           data == ArgsortData(SubSeq(mem.preds, start + 1, start + cnt), cnt)
       IN  /\ mem' = [mem EXCEPT !.preds =
                        [x \in 1..Len(mem.preds) |->
                            IF x > start /\ x <= start + cnt THEN data[x - start]
                            ELSE mem.preds[x]]]
           /\ q_cur' = [q |-> q,
                        sorted_idx |-> sorted_idx,
                        should_adjust |-> ShouldAdjust(mem, q, sorted_idx),
                        i |-> nxt[1],
                        j |-> nxt[2],
                        sorted_reads |-> BestWorstPositions(cnt),
                        preds_read |-> TRUE]
    /\ q_pc' = "pairs"
    /\ UNCHANGED <<q_log, sortVars, buildVars, kernelVars, trainVars, sigmoidVars, filterVars>>

\* get_gradients_for_one_query, lines 43-65, for a query without documents:
\* malloc(0) and argsort on no element write nothing, and lines 50-51 read
\* sorted_idx[0] and sorted_idx[-1], which no statement has written and
\* which lie outside the allocation, and then preds at the offsets read.
\* The reads fault, or they yield whatever the memory holds and
\* should_adjust comes out as either value; the loops have no iteration.
QueryEnterEmpty ==
    /\ q_pc = "enter"
    /\ QueryCnt(mem, q_cur.q) = 0
    /\ \/ /\ q_pc' = "faulted"
          /\ q_cur' = [q_cur EXCEPT !.sorted_reads = {0}]
       \/ /\ q_pc' = "pairs"
          /\ \E should_adjust \in {0, 1} :
                q_cur' = [q |-> q_cur.q,
                          sorted_idx |-> <<>>,
                          should_adjust |-> should_adjust,
                          i |-> 0,
                          j |-> 0,
                          sorted_reads |-> BestWorstPositions(0),
                          preds_read |-> TRUE]
    /\ UNCHANGED <<mem, q_log, sortVars, buildVars, kernelVars, trainVars, sigmoidVars, filterVars>>

\* Lines 75-96 for the pair at sorted positions (i, j), then the loops run
\* up to the next pair that passes line 74.
QueryPair ==
    /\ q_pc = "pairs"
    /\ q_cur.i < QueryCnt(mem, q_cur.q)
    /\ LET q == q_cur.q
           t == PairTerms(mem, q, q_cur.sorted_idx, q_cur.should_adjust, q_cur.i, q_cur.j)
           ld == LoadPair(mem[GradBuffer], mem[HessBuffer], QueryStart(mem, q), t)
           nxt == NextPair(mem, q, q_cur.sorted_idx, q_cur.i, q_cur.j + 1)
       IN  /\ mem' = [mem EXCEPT ![GradBuffer] = StoreGrad(@, ld),
                                 ![HessBuffer] = StoreHess(@, ld)]
           /\ q_log' = Append(q_log, [q |-> q, i |-> q_cur.i, j |-> q_cur.j,
                                      should_adjust |-> q_cur.should_adjust,
                                      discount_high |-> DiscountIndex(q_cur.i),
                                      discount_low |-> DiscountIndex(q_cur.j),
                                      terms |-> t])
           /\ q_cur' = [q_cur EXCEPT !.i = nxt[1], !.j = nxt[2]]
    /\ UNCHANGED <<q_pc, sortVars, buildVars, kernelVars, trainVars, sigmoidVars, filterVars>>

\* Line 97 and the end of the prange's iteration: the next query, or the
\* return of get_gradients.
QueryLeave ==
    /\ q_pc = "pairs"
    /\ q_cur.i >= QueryCnt(mem, q_cur.q)
    /\ q_cur' = [NoQuery EXCEPT !.q = q_cur.q + 1]
    /\ q_pc' = IF q_cur.q + 1 < mem.n_queries THEN "enter" ELSE "returned"
    /\ UNCHANGED <<mem, q_log, sortVars, buildVars, kernelVars, trainVars, sigmoidVars, filterVars>>

-----------------------------------------------------------------------------
\* get_sigmoid called once with a Calculator's table on any score.

\* The scores: the doubles between -2 and 2 that are multiples of
\* 2^-SignificandBits.
SigmoidScores ==
    {Double(k, 2 ^ SignificandBits) :
        k \in (-(2 ^ (SignificandBits + 1)))..(2 ^ (SignificandBits + 1))}

\* What the memory after the last element of the table may hold.
StrayValues == {Zero, R(1)}

SigmoidIdle ==
    /\ sg_score = Zero
    /\ sg_pc = "off"
    /\ sg_idx = 0
    /\ sg_val = Zero

SigmoidInit ==
    /\ sg_score \in SigmoidScores
    /\ sg_pc = "idle"
    /\ sg_idx = 0
    /\ sg_val = Zero

\* The element get_sigmoid reads for sg_score.
SigmoidRead ==
    SigmoidIndex(sg_score, Len(SigmoidTable), MIN_SIGMOID_ARG, MAX_SIGMOID_ARG,
                 SigmoidIdxFactor)

\* get_sigmoid when the element it reads is one of the table's.
SigmoidReturn ==
    /\ sg_pc = "idle"
    /\ SigmoidRead \in 0..(Len(SigmoidTable) - 1)
    /\ sg_idx' = SigmoidRead
    /\ sg_val' = get_sigmoid(sg_score, SigmoidTable, Len(SigmoidTable),
                             MIN_SIGMOID_ARG, MAX_SIGMOID_ARG, SigmoidIdxFactor)
    /\ sg_pc' = "returned"
    /\ UNCHANGED <<sg_score, sortVars, buildVars, kernelVars, trainVars, queryVars, filterVars>>

\* get_sigmoid when the element it reads is outside the table (the function
\* is nogil, the read is unchecked): the read faults, or it yields whatever
\* the memory holds.
SigmoidReadOutside ==
    /\ sg_pc = "idle"
    /\ SigmoidRead \notin 0..(Len(SigmoidTable) - 1)
    /\ sg_idx' = SigmoidRead
    /\ \/ sg_pc' = "faulted" /\ sg_val' = sg_val
       \/ sg_pc' = "returned" /\ sg_val' \in StrayValues
    /\ UNCHANGED <<sg_score, sortVars, buildVars, kernelVars, trainVars, queryVars, filterVars>>

-----------------------------------------------------------------------------
\* The notebook: drop_requests_with_no_interactions on a frame that
\* generate_data made.

\* The most rows of a request (N_POSITIONS is 32 in the notebook), the most
\* requests and the most rows of a frame.
MaxPositions == 2
MaxRequests == 2
MaxRows == 4

InteractionCols == {"i_1", "i_2"}

\* generate_data, lines 72-106: n_requests * n_positions rows, request_id
\* repeated n_positions times, i_1 and i_2 drawn from {0, 1}.
generate_data(n_positions, n_requests) ==
    {[k \in 1..(n_requests * n_positions) |->
        [request_id |-> (k - 1) \div n_positions, i_1 |-> a[k], i_2 |-> b[k]]] :
        a \in [1..(n_requests * n_positions) -> {0, 1}],
        b \in [1..(n_requests * n_positions) -> {0, 1}]}

\* data.loc[mask]: the rows whose request_id is in ids, in their order.
RECURSIVE RowsOfRequests(_, _)
RowsOfRequests(data, ids) ==
    IF data = <<>> THEN <<>>
    ELSE (IF data[1].request_id \in ids THEN <<data[1]>> ELSE <<>>)
         \o RowsOfRequests(Tail(data), ids)

\* set(data.loc[data[interaction_col] > 0].request_id)
interaction_requests(data, interaction_col) ==
    {data[k].request_id : k \in {x \in 1..Len(data) : data[x][interaction_col] > 0}}

RECURSIVE RowsWithInteraction(_, _)
RowsWithInteraction(data, interaction_col) ==
    IF data = <<>> THEN <<>>
    ELSE (IF data[1][interaction_col] > 0 THEN <<data[1]>> ELSE <<>>)
         \o RowsWithInteraction(Tail(data), interaction_col)

drop_rows_with_no_interactions(data, interaction_col) ==
    RowsWithInteraction(data, interaction_col)
drop_requests_with_no_interactions(data, interaction_col) ==
    RowsOfRequests(data, interaction_requests(data, interaction_col))

\* data.request_id.nunique()
nunique(data) == Cardinality({data[k].request_id : k \in 1..Len(data)})

\* group=[N_POSITIONS] * train_data_1.request_id.nunique(), line 218.
GroupOf(n_positions, data) == [r \in 1..nunique(data) |-> n_positions]

FilterIdle ==
    /\ f_positions = 0
    /\ f_data = <<>>
    /\ f_col = ""
    /\ f_out = <<>>
    /\ f_pc = "off"

FilterInit ==
    /\ \E n_positions \in 1..MaxPositions :
         \E n_requests \in 1..MaxRequests :
            /\ n_positions * n_requests <= MaxRows
            /\ f_positions = n_positions
            /\ f_data \in generate_data(n_positions, n_requests)
    /\ f_col \in InteractionCols
    /\ f_out = <<>>
    /\ f_pc = "idle"

\* drop_requests_with_no_interactions(data, interaction_col)
FilterCall ==
    /\ f_pc = "idle"
    /\ f_out' = drop_requests_with_no_interactions(f_data, f_col)
    /\ f_pc' = "filtered"
    /\ UNCHANGED <<f_positions, f_data, f_col, sortVars, buildVars, kernelVars, trainVars, queryVars, sigmoidVars>>

\* The frame returned is filtered again by the same column.
FilterAgain ==
    /\ f_pc = "filtered"
    /\ f_out' = drop_requests_with_no_interactions(f_out, f_col)
    /\ f_pc' = "again"
    /\ UNCHANGED <<f_positions, f_data, f_col, sortVars, buildVars, kernelVars, trainVars, queryVars, sigmoidVars>>

\* The frame returned is filtered by the other column, as train_data_12 is
\* made (lines 440-443).
FilterOther ==
    /\ f_pc = "filtered"
    /\ f_col' \in InteractionCols \ {f_col}
    /\ f_out' = drop_requests_with_no_interactions(f_out, f_col')
    /\ f_pc' = "other"
    /\ UNCHANGED <<f_positions, f_data, sortVars, buildVars, kernelVars, trainVars, queryVars, sigmoidVars>>

-----------------------------------------------------------------------------
\* Specifications.

\* The alpha sweep of the notebook: one training run per alpha.
Init == TrainInit /\ SortIdle /\ BuildIdle /\ KernelIdle /\ QueryIdle /\ SigmoidIdle /\ FilterIdle
Next ==
    \/ FitCombinedObjective
    \/ TrainRound
    \/ TrainReturn
Spec == Init /\ [][Next]_vars

\* One direct call of lambdamart_objective.
InitDirect == DirectInit /\ SortIdle /\ BuildIdle /\ KernelIdle /\ QueryIdle /\ SigmoidIdle /\ FilterIdle
NextDirect == DirectCall
SpecDirect == InitDirect /\ [][NextDirect]_vars

\* The sort utility called once on any buffer of scores.
InitSort == SortInit /\ BuildIdle /\ KernelIdle /\ TrainIdle /\ QueryIdle /\ SigmoidIdle /\ FilterIdle
NextSort == ArgsortReturn \/ ArgsortThrow
SpecSort == InitSort /\ [][NextSort]_vars

\* One run of build.sh.
InitBuild == BuildInit /\ SortIdle /\ KernelIdle /\ TrainIdle /\ QueryIdle /\ SigmoidIdle /\ FilterIdle
NextBuild ==
    \/ BuildTest
    \/ BuildCompile
    \/ BuildArchive
    \/ BuildRmObject
    \/ BuildExt
    \/ BuildRmIntermediate
    \/ BuildRmBuildDir
    \/ BuildEcho
SpecBuild == InitBuild /\ [][NextBuild]_vars

\* get_gradients called MaxCalls times on the same arguments and buffers.
InitKernel == KernelInit /\ SortIdle /\ BuildIdle /\ TrainIdle /\ QueryIdle /\ SigmoidIdle /\ FilterIdle
NextKernel ==
    \/ KernelCall
    \/ \E q \in Queries : TaskBegin(q)
    \/ \E q \in Queries : TaskLoad(q)
    \/ \E q \in Queries : TaskStore(q)
    \/ KernelReturn
SpecKernel == InitKernel /\ [][NextKernel]_vars

\* One call of get_gradients followed pair by pair.
InitQuery == QueryInit /\ SortIdle /\ BuildIdle /\ KernelIdle /\ TrainIdle /\ SigmoidIdle /\ FilterIdle
NextQuery ==
    \/ QueryCall
    \/ QueryEnter
    \/ QueryPair
    \/ QueryLeave
SpecQuery == InitQuery /\ [][NextQuery]_vars

\* One call of get_gradients on query boundaries that hold an empty query.
InitEmptyQuery == QueryInitEmpty /\ SortIdle /\ BuildIdle /\ KernelIdle /\ TrainIdle /\ SigmoidIdle /\ FilterIdle
NextEmptyQuery ==
    \/ QueryCall
    \/ QueryEnter
    \/ QueryEnterEmpty
    \/ QueryPair
    \/ QueryLeave
SpecEmptyQuery == InitEmptyQuery /\ [][NextEmptyQuery]_vars

\* One call of get_sigmoid.
InitSigmoid == SigmoidInit /\ SortIdle /\ BuildIdle /\ KernelIdle /\ TrainIdle /\ QueryIdle /\ FilterIdle
NextSigmoid == SigmoidReturn \/ SigmoidReadOutside
SpecSigmoid == InitSigmoid /\ [][NextSigmoid]_vars

\* A frame filtered, and the result filtered once more.
InitFilter == FilterInit /\ SortIdle /\ BuildIdle /\ KernelIdle /\ TrainIdle /\ QueryIdle /\ SigmoidIdle
NextFilter == FilterCall \/ FilterAgain \/ FilterOther
SpecFilter == InitFilter /\ [][NextFilter]_vars

-----------------------------------------------------------------------------
\* Properties.

ZeroBuffer == [x \in 1..kin.n_preds |-> Zero]
\* The elements of grad and hess (0-based) of query q.
Slice(q) == QueryStart(kin, q)..(QueryEnd(kin, q) - 1)
\* Query q has stored to grad and hess.
HasStored(q) == \E x \in Slice(q) : q \in written[x + 1]

\* C1: when a call of get_gradients returns, grad and hess hold what they
\* hold when the queries are processed one after another in index order from
\* the same buffers, whatever the interleaving of the per-query tasks was.
C1_ScheduleIndependent ==
    k_pc = "returned" =>
        [grad |-> grad, hess |-> hess] = _get_gradients(kin, prev.grad, prev.hess)

C1_Witness ==
    /\ k_pc = "returned"
    /\ kin.n_queries = 2
    /\ HasStored(0)
    /\ HasStored(1)
    /\ \E x \in 1..kin.n_preds : grad[x] # Zero

\* C2: the task of query i stores to grad and hess only at indices k with
\* QueryBoundary[i] <= k < QueryBoundary[i+1], the stores it has loaded for
\* included, so no element is stored to by two different tasks.
C2_WritesInOwnSlice ==
    k_pc \in {"running", "returned"} =>
        /\ \A x \in 1..kin.n_preds :
            /\ \A q \in written[x] : (x - 1) \in Slice(q)
            /\ Cardinality(written[x]) <= 1
        /\ \A q \in Queries :
            task[q + 1].pc = "loaded" =>
                {task[q + 1].ld.ih, task[q + 1].ld.il} \subseteq Slice(q)

C2_Witness ==
    /\ k_pc = "running"
    /\ kin.n_queries = 2
    /\ task[1].pc = "loaded"
    /\ HasStored(1)

\* C3: every element of grad and hess is zero in the parallel phase until a
\* task stores to it (the zeroing comes first); what a call returns is the
\* result computed from zeroed buffers on the call's inputs, whatever the
\* buffers held before; and a second call on the same inputs returns what
\* the first returned.
C3_ZeroedAndRecomputed ==
    /\ k_pc = "running" =>
        \A x \in 1..kin.n_preds :
            written[x] = {} => (grad[x] = Zero /\ hess[x] = Zero)
    /\ k_pc = "returned" =>
        [grad |-> grad, hess |-> hess] = _get_gradients(kin, ZeroBuffer, ZeroBuffer)
    /\ (k_pc = "returned" /\ calls >= 2) =>
        (grad = prev.grad /\ hess = prev.hess)

C3_Witness ==
    /\ k_pc = "returned"
    /\ calls = 2
    /\ \E x \in 1..kin.n_preds : prev.grad[x] # Zero /\ grad[x] # Zero

\* Every document of query q has the same label.
SameLabels(q) == \A x, y \in Slice(q) : At(kin.gains, x) = At(kin.gains, y)

\* C10: a query whose documents all share one label has no pair that passes
\* line 74 (its task stores nothing), and after the call the grad and hess
\* entries of its slice are exactly zero, whatever the predictions.
C10_SameLabelSliceIsZero ==
    k_pc = "returned" =>
        \A q \in Queries :
            SameLabels(q) =>
                /\ NextPair(kin, q, SortedIdx(kin, q), 0, 0)[1] >= QueryCnt(kin, q)
                /\ \A x \in Slice(q) :
                    /\ At(written, x) = {}
                    /\ At(grad, x) = Zero
                    /\ At(hess, x) = Zero

C10_Witness ==
    /\ k_pc = "returned"
    /\ \E q \in Queries :
        /\ SameLabels(q)
        /\ QueryCnt(kin, q) >= 2
        /\ \E x, y \in Slice(q) : At(kin.preds, x) # At(kin.preds, y)
        /\ \E x \in Slice(q) : At(prev.grad, x) # Zero
    /\ \E x \in 1..kin.n_preds : grad[x] # Zero

\* The first sort_n entries of the output buffer.
SortedOrder == SubSeq(sort_indices, 1, sort_n)

\* C5: for n >= 1 argsort returns each index 0..n-1 exactly once, the scores
\* read in that order do not increase, and equal scores keep their original
\* relative order.
C5_ArgsortStableDescending ==
    (sort_pc = "returned" /\ sort_n >= 1) =>
        /\ {SortedOrder[i] : i \in 1..sort_n} = 0..(sort_n - 1)
        /\ \A i, j \in 1..sort_n :
            i < j =>
                /\ RGe(At(sort_data, SortedOrder[i]), At(sort_data, SortedOrder[j]))
                /\ At(sort_data, SortedOrder[i]) = At(sort_data, SortedOrder[j])
                    => SortedOrder[i] < SortedOrder[j]

\* argsort has returned for the scores [3, 1, 3] with the order 0, 2, 1.
C5_Witness ==
    /\ sort_pc = "returned"
    /\ sort_n = 3
    /\ sort_data = <<R(3), R(1), R(3)>>
    /\ SortedOrder = <<0, 2, 1>>

\* C6: a call of argsort with n <= 0 returns normally and has written no
\* index.
C6_NonPositiveNReturnsEmpty ==
    (sort_pc # "idle" /\ sort_n <= 0) =>
        /\ sort_pc = "returned"
        /\ \A i \in 1..MaxN : sort_indices[i] = Unwritten

\* C9: with the compiler absent, build.sh prints its fixed message, exits
\* with a non-zero status and has run no compile, archive, build or remove
\* step.
C9_MissingToolchainFails ==
    (b_pc = "exited" /\ CC \notin fs) =>
        /\ b_out = <<MissingToolchainMessage>>
        /\ b_status # 0
        /\ b_ran = <<>>

\* C4: a call of the objective on an empty group sequence, or on predictions
\* whose number differs from the sum of the group sizes, raises an error and
\* returns no gradient and no Hessian.
C4_InvalidInputRaises ==
    (t_pc = "called" /\
        (Len(dataset.group) = 0 \/ SumSeq(dataset.group) # Len(cb.preds))) =>
        /\ cb.outcome \in {"NameError", "IndexError"}
        /\ cb.grad = <<>>
        /\ cb.hess = <<>>

\* The kernel results for the two labels on the predictions of the last
\* callback.
Objective1 ==
    get_grad_hess(dataset.label_1, cb.preds, dataset.group, dataset.calculator_1)
Objective2 ==
    get_grad_hess(dataset.label_2, cb.preds, dataset.group, dataset.calculator_2)

\* C7: combined_objective returns, for every document k,
\* grad[k] = alpha * grad1[k] + (1 - alpha) * grad2[k] and the same for hess,
\* (grad1, hess1) and (grad2, hess2) being the kernel results for label_1 with
\* calculator_1 and for label_2 with calculator_2 on the same predictions;
\* with alpha = 1 it returns objective 1 and with alpha = 0 objective 2.
C7_CombinedIsBlend ==
    cb.outcome = "returned" =>
        LET gh_1 == Objective1
            gh_2 == Objective2
            rest == RSub(R(1), cb.alpha)
        IN  /\ Len(cb.grad) = Len(cb.preds)
            /\ Len(cb.hess) = Len(cb.preds)
            /\ \A k \in 1..Len(cb.preds) :
                /\ cb.grad[k] = RAdd(RMul(cb.alpha, gh_1.grad[k]), RMul(rest, gh_2.grad[k]))
                /\ cb.hess[k] = RAdd(RMul(cb.alpha, gh_1.hess[k]), RMul(rest, gh_2.hess[k]))
            /\ cb.alpha = R(1) => (cb.grad = gh_1.grad /\ cb.hess = gh_1.hess)
            /\ cb.alpha = R(0) => (cb.grad = gh_2.grad /\ cb.hess = gh_2.hess)

\* A callback has returned the blend of two different, non-zero objectives
\* with an alpha strictly between 0 and 1.
C7_Witness ==
    /\ cb.outcome = "returned"
    /\ RGt(cb.alpha, R(0))
    /\ RGt(R(1), cb.alpha)
    /\ \E k \in 1..Len(cb.preds) :
        /\ Objective1.grad[k] # Zero
        /\ Objective2.grad[k] # Zero
        /\ Objective1.grad[k] # Objective2.grad[k]
        /\ cb.grad[k] # Objective1.grad[k]

\* C8: throughout a training run dataset.alpha is the alpha that
\* fit_combined_objective was called with, every callback of the run has read
\* that value, and no step inside a run changes dataset.alpha.
C8_AlphaFixedDuringRun ==
    /\ [](t_pc = "train" =>
            /\ alpha = run_alpha
            /\ round > 0 => cb.alpha = run_alpha)
    /\ [][t_pc = "train" => alpha' = alpha]_vars

\* The last round of a run after the first has read the alpha of its run,
\* which differs from the alpha the data set was built with.
C8_Witness ==
    /\ t_pc = "train"
    /\ sweep_i >= 1
    /\ round = MaxRounds
    /\ cb.alpha = run_alpha
    /\ run_alpha # R(1)

\* The commands of the then-branch of build.sh, in the order of its lines.
BuildSteps ==
    <<"cc -c argsort.cpp", "ar rcs libargsort.a argsort.o", "rm argsort.o",
      "python setup.py build_ext --inplace", "rm lambdaobj.c libargsort.a",
      "rm -rf build">>

\* C18: with the compiler present, build.sh runs its steps in the order
\* compile, archive, build the extension, remove the intermediate artifacts;
\* the extension build is reached only with the library libargsort.a made,
\* and the intermediate artifacts are removed only after a successful build
\* of the extension.
C18_BuildInOrder ==
    CC \in fs =>
        /\ Len(b_ran) <= Len(BuildSteps)
        /\ b_ran = SubSeq(BuildSteps, 1, Len(b_ran))
        /\ b_pc = "setup" => "libargsort.a" \in fs
        /\ b_pc = "rm_c" => b_status = 0

-----------------------------------------------------------------------------
\* Properties of the call followed pair by pair.

QueriesOfCall == 0..(mem.n_queries - 1)
\* The documents (0-based, within the query) of query q.
DocsOf(q) == 0..(QueryCnt(mem, q) - 1)
\* The entries of q_log that belong to query q.
LogOf(q) == {x \in 1..Len(q_log) : q_log[x].q = q}
\* Query q has two documents, labels [1, 0] and predictions [0, 0].
TwoDocumentCase(q) ==
    /\ QueryCnt(mem, q) = 2
    /\ At(mem.gains, QueryStart(mem, q)) = R(1)
    /\ At(mem.gains, QueryStart(mem, q) + 1) = R(0)
    /\ At(mem.preds, QueryStart(mem, q)) = Zero
    /\ At(mem.preds, QueryStart(mem, q) + 1) = Zero

\* delta_ndcg of a logged pair, computed anew from the gains of its two
\* documents, the two discounts read for it and the query's inverse max DCG.
DeltaNdcgOf(e) ==
    LET start == QueryStart(mem, e.q)
        gain_term == RSub(At(mem.gains, start + e.terms.high),
                          At(mem.gains, start + e.terms.low))
        discount_term == fabs(RSub(At(mem.discounts, e.discount_low),
                                   At(mem.discounts, e.discount_high)))
    IN  RMul(RMul(gain_term, discount_term), At(mem.inverse_max_dcgs, e.q))

C12_InputsUnchanged == [][Inputs(mem') = Inputs(mem)]_vars

C12_Witness ==
    /\ q_pc = "returned"
    /\ q_log # <<>>
    /\ \E x \in 1..mem.n_preds : mem.grad[x] # Zero /\ mem.hess[x] # Zero
    /\ \E q \in QueriesOfCall :
         SortedIdx(mem, q) # [x \in 1..QueryCnt(mem, q) |-> x - 1]

\* The entries of q_log for the pair (high, low) of query q.
EntriesOf(q, high, low) ==
    {x \in LogOf(q) : q_log[x].terms.high = high /\ q_log[x].terms.low = low}
\* The label of document d of query q, as the kernel is handed it.
LabelOf(q, d) == At(mem.gains, QueryStart(mem, q) + d)

\* In the log of a call that has returned: no pair of equal labels and no
\* document with itself, and every (high, low) of a query's documents with
\* label(high) > label(low) exactly once.
PairsProcessedOnce ==
    \A q \in QueriesOfCall :
        /\ \A x \in LogOf(q) :
             /\ q_log[x].terms.high \in DocsOf(q)
             /\ q_log[x].terms.low \in DocsOf(q)
             /\ q_log[x].terms.high # q_log[x].terms.low
             /\ RGt(LabelOf(q, q_log[x].terms.high), LabelOf(q, q_log[x].terms.low))
        /\ \A high, low \in DocsOf(q) :
             RGt(LabelOf(q, high), LabelOf(q, low)) =>
                Cardinality(EntriesOf(q, high, low)) = 1

\* The step that processes a pair adds its lambda to grad[high], subtracts
\* it from grad[low], adds its hess_term to hess[high] and to hess[low], and
\* leaves the other elements as they were.
PairAccumulates ==
    q_log' # q_log =>
        LET e == q_log'[Len(q_log')]
            ih == QueryStart(mem, e.q) + e.terms.high
            il == QueryStart(mem, e.q) + e.terms.low
        IN  /\ Len(q_log') = Len(q_log) + 1
            /\ At(mem'.grad, ih) = RAdd(At(mem.grad, ih), e.terms.p_lambda)
            /\ At(mem'.grad, il) = RSub(At(mem.grad, il), e.terms.p_lambda)
            /\ At(mem'.hess, ih) = RAdd(At(mem.hess, ih), e.terms.p_hess)
            /\ At(mem'.hess, il) = RAdd(At(mem.hess, il), e.terms.p_hess)
            /\ \A x \in 0..(mem.n_preds - 1) :
                 x \notin {ih, il} =>
                    /\ At(mem'.grad, x) = At(mem.grad, x)
                    /\ At(mem'.hess, x) = At(mem.hess, x)

\* C13: within one query every ordered pair (high, low) of documents with
\* label(high) > label(low) is processed exactly once, pairs of equal labels
\* and a document with itself never, and each processed pair adds lambda to
\* grad[high], subtracts lambda from grad[low] and adds the same hess_term to
\* hess[high] and hess[low].
C13_EveryPairOnce ==
    /\ [](q_pc = "returned" => PairsProcessedOnce)
    /\ [][PairAccumulates]_vars

C13_Witness ==
    /\ q_pc = "returned"
    /\ \E q \in QueriesOfCall :
         /\ Cardinality(LogOf(q)) >= 2
         /\ \E a, b \in DocsOf(q) : a # b /\ LabelOf(q, a) = LabelOf(q, b)
         /\ \E x \in LogOf(q) : q_log[x].i > q_log[x].j

\* The prediction of document d of query q.
ScoreOf(q, d) == At(mem.preds, QueryStart(mem, q) + d)
\* The scores of query q are not all equal: its best differs from its worst.
ScoresDiffer(q) == \E a, b \in DocsOf(q) : ScoreOf(q, a) # ScoreOf(q, b)
\* delta_ndcg of a logged pair as the claim has it: divided by
\* 0.01 + |delta_score| when the scores of its query differ.
AdjustedDeltaNdcgOf(e) ==
    IF ScoresDiffer(e.q)
    THEN RDiv(DeltaNdcgOf(e),
              RAdd(Double(1, 100),
                   fabs(RSub(ScoreOf(e.q, e.terms.high), ScoreOf(e.q, e.terms.low)))))
    ELSE DeltaNdcgOf(e)

\* C15: should_adjust of a query is 1 unless its best and its worst sorted
\* score are equal; the delta_ndcg that enters lambda and hess_term of a pair
\* is divided by 0.01 + |delta_score| exactly when should_adjust is 1, and is
\* undivided for every pair of a query whose scores are all equal.
C15_AdjustWhenScoresDiffer ==
    /\ q_pc = "pairs" => (q_cur.should_adjust = 1 <=> ScoresDiffer(q_cur.q))
    /\ q_pc = "returned" =>
         \A x \in 1..Len(q_log) :
            \E delta_ndcg \in {AdjustedDeltaNdcgOf(q_log[x])} :
                /\ q_log[x].should_adjust = 1 <=> ScoresDiffer(q_log[x].q)
                /\ q_log[x].terms.p_lambda = RMul(q_log[x].terms.p, RNeg(delta_ndcg))
                /\ q_log[x].terms.p_hess =
                        RMul(RMul(q_log[x].terms.p, RSub(R(2), q_log[x].terms.p)),
                             RMul(R(2), delta_ndcg))

C15_Witness ==
    /\ q_pc = "returned"
    /\ \E x \in 1..Len(q_log) :
         /\ q_log[x].should_adjust = 1
         /\ q_log[x].terms.delta_score = Zero
         /\ DeltaNdcgOf(q_log[x]) # Zero
         /\ AdjustedDeltaNdcgOf(q_log[x]) # DeltaNdcgOf(q_log[x])

\* rank(d): the 0-based position of document d of query q in the query's
\* descending-score order.
RankOf(q, d) ==
    CHOOSE pos \in DocsOf(q) : At(SortedIdx(mem, q), pos) = d

\* C16: for every processed pair the discount term of delta_ndcg is
\* |Discount[rank(low)] - Discount[rank(high)]|, rank(d) being the 0-based
\* position of d in the descending-score order of its query, so that the
\* top-ranked document uses Discount[0].
C16_DiscountByRank ==
    \A x \in 1..Len(q_log) :
        LET e == q_log[x]
            rank_high == RankOf(e.q, e.terms.high)
            rank_low == RankOf(e.q, e.terms.low)
        IN  /\ e.discount_high = rank_high
            /\ e.discount_low = rank_low
            /\ e.terms.paired_discount =
                    fabs(RSub(At(mem.discounts, rank_low), At(mem.discounts, rank_high)))

\* C17: for every processed pair the gain factor of delta_ndcg is
\* gain(label(high)) - gain(label(low)) with gain(label) = 2^label - 1, for
\* every label 0, 1, 2, ..., the kernel being called as the objective
\* callbacks call it.
C17_GainIsPowerOfTwo ==
    \A x \in 1..Len(q_log) :
        LET e == q_log[x]
            start == QueryStart(mem, e.q)
        IN  e.terms.gain_diff =
                R(gain(At(mem.label, start + e.terms.high))
                  - gain(At(mem.label, start + e.terms.low)))

\* The sum of the doubles of s, without rounding.
RECURSIVE ExactSum(_)
ExactSum(s) == IF s = <<>> THEN Zero ELSE ExactAdd(s[1], ExactSum(Tail(s)))
\* The sum of grad over the elements of query q is 0.
GradSumIsZero(q) ==
    ExactSum(SubSeq(mem.grad, QueryStart(mem, q) + 1, QueryEnd(mem, q)))[1] = 0
\* The step that processes a pair gives hess[high] and hess[low] the same
\* increment.
SameHessIncrement ==
    q_log' # q_log =>
        LET e == q_log'[Len(q_log')]
            ih == QueryStart(mem, e.q) + e.terms.high
            il == QueryStart(mem, e.q) + e.terms.low
        IN  \E inc \in {e.terms.p_hess} :
                /\ At(mem'.hess, ih) = RAdd(At(mem.hess, ih), inc)
                /\ At(mem'.hess, il) = RAdd(At(mem.hess, il), inc)
\* The step that processes a pair adds one lambda to grad[high] and subtracts
\* the same lambda from grad[low], each accumulation rounded.
OppositeGradIncrements ==
    q_log' # q_log =>
        LET e == q_log'[Len(q_log')]
            ih == QueryStart(mem, e.q) + e.terms.high
            il == QueryStart(mem, e.q) + e.terms.low
        IN  \E lambda \in {e.terms.p_lambda} :
                /\ At(mem'.grad, ih) = RAdd(At(mem.grad, ih), lambda)
                /\ At(mem'.grad, il) = RAdd(At(mem.grad, il), RNeg(lambda))
\* No document of query q takes part in more than one processed pair.
AtMostOnePairEach(q) ==
    \A d \in DocsOf(q) :
        Cardinality({x \in LogOf(q) : d \in {q_log[x].terms.high, q_log[x].terms.low}}) <= 1

\* C20 as stated: after a call of get_gradients the gradients of every query
\* sum to zero, and hess[high] and hess[low] of every pair receive identical
\* increments.
C20_GradientsSumToZero ==
    /\ [](q_pc = "returned" => \A q \in QueriesOfCall : GradSumIsZero(q))
    /\ [][SameHessIncrement]_vars

\* C20, amended: every processed pair adds lambda to grad[high] and subtracts
\* the same lambda from grad[low], each accumulation rounded to a double, and
\* gives hess[high] and hess[low] identical increments; after the call the
\* gradients of a query sum to exactly zero when none of its documents takes
\* part in more than one processed pair (otherwise the sum is zero only up to
\* the rounding of the accumulations).
C20_GradientsCancelPairwise ==
    /\ [](q_pc = "returned" =>
            \A q \in QueriesOfCall : AtMostOnePairEach(q) => GradSumIsZero(q))
    /\ [][OppositeGradIncrements /\ SameHessIncrement]_vars

C20_Witness ==
    /\ q_pc = "returned"
    /\ \E q \in QueriesOfCall :
         /\ LogOf(q) # {}
         /\ AtMostOnePairEach(q)
         /\ q_log[Len(q_log)].should_adjust = 1
         /\ \E x \in QueryStart(mem, q)..(QueryEnd(mem, q) - 1) : At(mem.grad, x) # Zero

\* C21: for a query of k documents the kernel reads the discount table only
\* at indices in 0 .. k - 1, so that a table as long as the largest group is
\* never read past its end, the last-ranked document of the largest query
\* included.
C21_DiscountReadsInsideGroup ==
    \A x \in 1..Len(q_log) :
        /\ q_log[x].discount_high \in 0..(QueryCnt(mem, q_log[x].q) - 1)
        /\ q_log[x].discount_low \in 0..(QueryCnt(mem, q_log[x].q) - 1)
        /\ q_log[x].discount_high < MaxSeq(mem.groups)
        /\ q_log[x].discount_low < MaxSeq(mem.groups)

\* C22: for a query without documents the per-query routine reads neither
\* sorted_idx nor preds and writes nothing to grad or hess, and every access
\* to sorted_idx in the routine is at a position in 0 .. cnt - 1.
C22_EmptyQueryTouchesNothing ==
    /\ q_pc # "faulted"
    /\ q_cur.sorted_reads \subseteq 0..(QueryCnt(mem, q_cur.q) - 1)
    /\ (q_pc = "pairs" /\ QueryCnt(mem, q_cur.q) = 0) =>
            /\ q_cur.sorted_reads = {}
            /\ ~q_cur.preds_read
    /\ \A x \in 1..Len(q_log) : QueryCnt(mem, q_log[x].q) > 0

-----------------------------------------------------------------------------
\* Properties of get_sigmoid.

-----------------------------------------------------------------------------
\* Properties of drop_requests_with_no_interactions.

RequestsOf(data) == {data[k].request_id : k \in 1..Len(data)}
\* Request r has a row of data with a positive value in column col.
HasInteraction(data, col, r) ==
    \E k \in 1..Len(data) : data[k].request_id = r /\ data[k][col] > 0

\* out is data without the rows of the requests that have no interaction in
\* column col, every other request keeping all its f_positions rows, and the
\* group sizes made for out add up to its rows.
FilteredBy(data, col, out) ==
    /\ RequestsOf(out) \subseteq RequestsOf(data)
    /\ \A r \in RequestsOf(data) :
         IF HasInteraction(data, col, r)
         THEN /\ RowsOfRequests(out, {r}) = RowsOfRequests(data, {r})
              /\ Len(RowsOfRequests(out, {r})) = f_positions
         ELSE RowsOfRequests(out, {r}) = <<>>
    /\ SumSeq(GroupOf(f_positions, out)) = Len(out)

\* C19: filtering by an outcome column removes every row of each request
\* without a positive value in that column and keeps every row of every
\* other request, so that each remaining request has its N_POSITIONS rows
\* and the group sizes [N_POSITIONS] * (number of remaining requests) add up
\* to the remaining rows; filtering the result again by the same column
\* changes nothing.
C19_FilterWholeRequests ==
    /\ [](f_pc \in {"filtered", "again"} => FilteredBy(f_data, f_col, f_out))
    /\ [][f_pc' = "again" => f_out' = f_out]_vars

C19_Witness ==
    /\ f_pc = "again"
    /\ f_out # <<>>
    /\ Len(f_out) < Len(f_data)
    /\ f_positions > 1
    /\ \E k \in 1..Len(f_out) : f_out[k][f_col] = 0


====
